---- MODULE Spec2Model ----
(***************************************************************************)
(* State-machine model of the SubtleAI media pipeline: the quota ledger    *)
(* (app/utils/database.py), the generate_subtitles handler and the dubbing *)
(* poll/fetch handlers (app/routers/videos.py, app/services).              *)
(*                                                                         *)
(* Units: durations are whole minutes; money is in thousandths of a dollar *)
(* (0.10 $/min = 100, 1.25 $/min = 1250, 0.006 $/min = 6).                 *)
(*                                                                         *)
(* The record store and the object store are remote services shared by     *)
(* every worker process, so each record read, each record write and each   *)
(* provider call of generate_subtitles and update_user_usage is a separate *)
(* step of the task that runs it.                                          *)
(***************************************************************************)
EXTENDS Integers, FiniteSets, Sequences, TLC

\* ------------------------------------------------------ program constants
WhisperCostPerMinute == 6
AllowedMinutesDefault == 30
CostPerMinute == 1250
UsageFreeCap == 50
UsageRate == 100

\* test_dubbing_flow.py 57: max_attempts of the caller's poll loop.
MaxPollAttempts == 30

\* config.py 36, 45, 37-41: upload limits (size in MB, duration in minutes).
MaxVideoSizeMB == 20
MaxVideoDurationMinutes == 60
AllowedVideoTypes == {"video/mp4", "video/webm", "audio/wav"}

\* ---------------------------------------------------------------- bounds
\* Number of generate requests per run.
MaxRequests == 2
\* Number of direct update_user_usage calls per run of the ledger.
MaxCalls == 3
\* Number of dub jobs the provider can hold.
MaxJobs == 2

Videos == {"v1", "v2"}
\* Task slots: Tasks run update_user_usage calls side by side; the handlers
\* of Spec run one generate request at a time, next to polls and fetches.
Tasks == {"t1", "t2"}
GenTasks == {"t1"}
\* Assets that may already hold a dubbed video when the run starts.
LegacyVideos == {"v2"}
JobIds == 1 .. MaxJobs
NoJob == 0
\* Probed durations (minutes) of the uploaded files.
Durations == {10, 40}
VideoDuration(v) == IF v = "v1" THEN 10 ELSE 40
\* The 'language' column of the assets (the caption language asked for at
\* upload) and the language the transcription of their audio comes out in.
Language(v) == IF v = "v1" THEN "en" ELSE "de"
TranscriptLanguage(v) == "en"
\* free_minutes_used of the account when the run starts.
InitialFreeUsed == {0, 25}
\* allowed_minutes of the account: the default and a per-account override.
AllowedChoices == {AllowedMinutesDefault, 60}

Min(a, b) == IF a <= b THEN a ELSE b
Max(a, b) == IF a >= b THEN a ELSE b

VARIABLES
    videos,     \* 'videos' table: one row per asset
    subtitles,  \* 'subtitles' table: set of rows
    storage,    \* object store: set of object paths
    users,      \* 'users' row of the requesting account
    provider,   \* dub provider: raw status of each job id
    task,       \* the generate_subtitles / update_user_usage calls in flight
    resp,       \* response of the poll or fetch call made in the last step
    nreq,       \* requests issued so far
    client,     \* the caller's poll loop on a dub job
    temps,      \* temporary files on the server's local disk
    compiled    \* the style the burn-in read and the stylesheet compiled from it

vars == <<videos, subtitles, storage, users, provider, task, resp, nreq, client, temps, compiled>>

\* ------------------------------------------------------------ object paths
NoPath == [kind |-> "none", video |-> "none", n |-> 0]
VideoPath(v) == [kind |-> "videos", video |-> v, n |-> 0]
SubtitlePath(v, n) == [kind |-> "subtitles", video |-> v, n |-> n]
DubbedPath(v, n) == [kind |-> "dubbed_videos", video |-> v, n |-> n]
ProcessedPath(v, n) == [kind |-> "processed_videos", video |-> v, n |-> n]

\* get_file_url: the public URL of a path; PathOfUrl: the path segment after
\* the bucket marker (the bucket name does not occur inside the paths).
GetFileUrl(path) == [bucket |-> "bucket", path |-> path]
PathOfUrl(url) == url.path
NoUrl == [bucket |-> "none", path |-> NoPath]

\* The URL upload_video stored for the asset's file; no handler rewrites it.
VideoUrl(v) == GetFileUrl(VideoPath(v))

\* A JSON value as the burn-in meets it: type is "str", "int" or "absent"
\* (the key is not in the dict); v is its text.
StyleKeys == {"fontSize", "color", "position", "alignment", "fontWeight", "fontStyle"}
Absent == [type |-> "absent", v |-> ""]
StrValue(x) == [type |-> "str", v |-> x]
IntValue(x) == [type |-> "int", v |-> x]

\* The value of the subtitle_styles column: a dict (items gives the value of
\* each key, Absent for a key the dict lacks), null, a list, or a string
\* holding JSON text.
NoItems == [k \in StyleKeys |-> Absent]
NullStyles == [type |-> "null", items |-> NoItems, text |-> ""]
ListStyles == [type |-> "list", items |-> NoItems, text |-> ""]
DictStyles(items) == [type |-> "dict", items |-> items, text |-> ""]
TextStyles(text) == [type |-> "str", items |-> NoItems, text |-> text]
EmptyStyles == DictStyles(NoItems)

\* The place of a row that is not (any more) in the 'videos' table.
NoVideo ==
    [status |-> "none", video_url |-> NoUrl, duration_minutes |-> 0,
     dubbing_id |-> NoJob, dubbed_video_url |-> NoUrl, burned_video_url |-> NoUrl,
     is_dubbed_audio |-> FALSE, subtitle_styles |-> NullStyles]

\* An update ... .eq('uuid', video_uuid) returns data only if the row exists.
Stored(v) == videos[v] # NoVideo

\* Timestamped file names: the n-th object of its kind written for the asset.
NextN(kind, v) == Cardinality({p \in storage : p.kind = kind /\ p.video = v}) + 1

\* ------------------------------------------------------------ quota ledger
Ledger(u) == [minutes_consumed |-> u.minutes_consumed,
              free_minutes_used |-> u.free_minutes_used,
              total_cost |-> u.total_cost]

NewMinutes(cur, minutes) == cur.minutes_consumed + minutes

\* Variant: free_minutes_used is not capped.
NewFreeMinutesMut(cur, minutes) == cur.free_minutes_used + minutes

NewFreeMinutes(cur, minutes) == Min(cur.free_minutes_used + minutes, UsageFreeCap)

NewTotalCost(cur, minutes) ==
    cur.total_cost + Max(0, (cur.free_minutes_used + minutes) - UsageFreeCap) * UsageRate

\* The row update_user_usage writes from the row it read.
UsageUpdate(cur, minutes) ==
    [minutes_consumed |-> NewMinutes(cur, minutes),
     free_minutes_used |-> NewFreeMinutes(cur, minutes),
     total_cost |-> NewTotalCost(cur, minutes)]

\* get_user_details: minutes_remaining of the account.
MinutesRemaining(u) == Max(0, u.allowed_minutes - u.free_minutes_used)

\* estimate_whisper_cost
EstimateWhisperCost(duration) == duration * WhisperCostPerMinute

\* ---------------------------------------------------------------- tasks
NoResult == [code |-> 0, reason |-> "none", dubbing_id |-> NoJob]

IdleTask ==
    [pc |-> "idle", op |-> "none", video |-> "none", dub |-> FALSE,
     vstatus |-> "none", duration |-> 0, cost |-> 0,
     cur |-> [minutes_consumed |-> 0, free_minutes_used |-> 0, total_cost |-> 0],
     job |-> NoJob, sub_url |-> NoUrl, result |-> NoResult, req |-> 0,
     usage_ok |-> FALSE, alone |-> FALSE,
     pre |-> [minutes_consumed |-> 0, free_minutes_used |-> 0, total_cost |-> 0],
     presubs |-> 0, translated |-> FALSE]

\* No upload request.
NoRequest == [filename |-> FALSE, styles |-> "none", size |-> 0,
              content_type |-> "none", probed |-> 0]

\* resp.request: the upload request that was answered.
NoResp == [op |-> "none", video |-> "none", job |-> NoJob, code |-> 0,
           reason |-> "none", url |-> NoUrl, raw |-> "none", provider_calls |-> 0,
           detail |-> "none", attempted |-> {}, failed |-> {}, stage |-> "none",
           request |-> NoRequest, language |-> "none",
           transcript_language |-> "none", text_language |-> "none"]

\* The caller's poll loop: not started.
NoClient == [state |-> "idle", attempt |-> 0, video |-> "none", job |-> NoJob]

\* ------------------------------------------------------ temporary files
\* tempfile.NamedTemporaryFile(delete=False): a file of the call `owner`.
TempFile(owner, name) == [owner |-> owner, name |-> name]
Files(owner, names) == {TempFile(owner, n) : n \in names}
TempsOf(owner) == {f \in temps : f.owner = owner}

\* videos.py 328: the file the duration re-probe downloads into, unlinked by
\* the finally clause at 359-361.
ProbeTempNames == {"probe"}
\* subtitle_service.py 91: the file the video is downloaded into, unlinked at
\* 142-145 or 148-149.
ServiceTempNames == {"download"}
\* dubbing_service.py 154: the file the dubbed audio is streamed into,
\* unlinked at 192-198.
AudioTempNames == {"dubbed"}
\* video_processor.py 193-197: the five files of a burn-in.
BurnTempNames == {"video", "subtitle", "ass", "styled_ass", "output"}

\* Variant: the styled markup file is left behind.
BurnCleanedNamesMut == {"video", "subtitle", "output", "ass"}

\* video_processor.py 340-347: the files the finally clause unlinks.
BurnCleanedNames == {"video", "subtitle", "output", "ass", "styled_ass"}

SubtitlesOf(v) == {s \in subtitles : s.video_id = v}

\* ------------------------------------------------- update_user_usage steps
\* database.py 275-283: read the current row.
UsageRead(t) ==
    /\ task[t].pc = "usage_read"
    /\ task' = [task EXCEPT ![t].cur = Ledger(users), ![t].pc = "usage_write"]
    /\ resp' = NoResp
    /\ UNCHANGED <<videos, subtitles, storage, users, provider, nreq, client, temps, compiled>>

\* Where a call continues after update_user_usage returned.
AfterUsage(tk) ==
    IF tk.op = "usage" THEN [tk EXCEPT !.pc = "done"]
    ELSE IF tk.dub
    THEN [tk EXCEPT !.pc = "done",
                    !.result = [code |-> 200, reason |-> "dubbing_initiated",
                                dubbing_id |-> tk.job]]
    ELSE [tk EXCEPT !.pc = "done",
                    !.result = [code |-> 200, reason |-> "subtitles_generated",
                                dubbing_id |-> NoJob]]

\* database.py 285-298: compute from the row read and write it back.
UsageWrite(t) ==
    /\ task[t].pc = "usage_write"
    /\ \E ok \in BOOLEAN :
         /\ users' = IF ok
                     THEN [users EXCEPT
                             !.minutes_consumed = NewMinutes(task[t].cur, task[t].duration),
                             !.free_minutes_used = NewFreeMinutes(task[t].cur, task[t].duration),
                             !.total_cost = NewTotalCost(task[t].cur, task[t].duration)]
                     ELSE users
         /\ task' = [task EXCEPT ![t] = AfterUsage([task[t] EXCEPT !.usage_ok = ok])]
    /\ resp' = NoResp
    /\ UNCHANGED <<videos, subtitles, storage, provider, nreq, client, temps, compiled>>

\* The minutes a direct call may pass: the function takes any float.
CallMinutes == Durations \cup {0, 5, -5}

\* No other call is between its start and its return.
NoCallInFlight(t) == \A u \in Tasks \ {t} : task[u].pc \in {"idle", "done"}

\* A direct call update_user_usage(user, minutes, cost).
UsageCall(t) ==
    /\ task[t].pc = "idle"
    /\ nreq < MaxCalls
    /\ \E minutes \in CallMinutes :
         task' = [task EXCEPT ![t] = [IdleTask EXCEPT !.pc = "usage_read",
                                                      !.op = "usage",
                                                      !.duration = minutes,
                                                      !.pre = Ledger(users),
                                                      !.alone = NoCallInFlight(t)]]
    /\ nreq' = nreq + 1
    /\ resp' = NoResp
    /\ UNCHANGED <<videos, subtitles, storage, users, provider, client, temps, compiled>>

\* The caller has its answer; the task slot is free for the next request.
Finish(t) ==
    /\ task[t].pc = "done"
    /\ task' = [task EXCEPT ![t] = IdleTask]
    /\ resp' = NoResp
    /\ UNCHANGED <<videos, subtitles, storage, users, provider, nreq, client, temps, compiled>>

\* ------------------------------------------------ generate_subtitles steps
\* Variant: a finished asset is accepted for processing again.
ValidStartStatusMut(s) == s \in {"queued", "uploaded", "failed", "completed"}

\* videos.py 313: the statuses from which processing may be started.
ValidStartStatus(s) == s \in {"queued", "uploaded", "failed"}

\* videos.py 353 (and 164): the quota pre-check rejects the request.
QuotaRejects(minutes_remaining, duration, processing_cost) ==
    minutes_remaining < duration /\ processing_cost > 0

\* videos.py 298: the request reads the asset row.
GenStart(t) ==
    /\ task[t].pc = "idle"
    /\ nreq < MaxRequests
    /\ \E v \in Videos, dub \in BOOLEAN :
         /\ Stored(v)
         /\ task' = [task EXCEPT ![t] = [IdleTask EXCEPT
                    !.pc = "check", !.op = "generate", !.video = v, !.dub = dub,
                    !.req = nreq + 1,
                    !.vstatus = videos[v].status,
                    !.pre = Ledger(users),
                    !.presubs = Cardinality(SubtitlesOf(v))]]
    /\ nreq' = nreq + 1
    /\ resp' = NoResp
    /\ UNCHANGED <<videos, subtitles, storage, users, provider, client, temps, compiled>>

\* videos.py 312-324: status check on the row read, then status := processing.
GenCheck(t) ==
    /\ task[t].pc = "check"
    /\ IF ~ValidStartStatus(task[t].vstatus)
       THEN /\ task' = [task EXCEPT ![t].pc = "done",
                          ![t].result = [code |-> 400, reason |-> "invalid_status",
                                         dubbing_id |-> NoJob]]
            /\ UNCHANGED videos
       ELSE \E ok \in BOOLEAN :
              IF ok /\ Stored(task[t].video)
              THEN /\ videos' = [videos EXCEPT ![task[t].video].status = "processing"]
                   /\ task' = [task EXCEPT ![t].pc = "probe"]
              ELSE /\ task' = [task EXCEPT ![t].pc = "done",
                                 ![t].result = [code |-> 500,
                                                reason |-> "status_update_failed",
                                                dubbing_id |-> NoJob]]
                   /\ UNCHANGED videos
    /\ resp' = NoResp
    /\ UNCHANGED <<subtitles, storage, users, provider, nreq, client, temps, compiled>>

\* videos.py 326-341: download the file into a temporary file and probe its
\* duration again; a failed download raises through the finally clause.
GenProbe(t) ==
    /\ task[t].pc = "probe"
    /\ LET v == task[t].video IN
       \E ok \in BOOLEAN :
         IF ok /\ PathOfUrl(VideoUrl(v)) \in storage
         THEN /\ task' = [task EXCEPT ![t].pc = "quota",
                            ![t].duration = VideoDuration(v),
                            ![t].cost = EstimateWhisperCost(VideoDuration(v))]
              /\ temps' = temps \cup Files(t, ProbeTempNames)
         ELSE /\ task' = [task EXCEPT ![t].pc = "fail",
                            ![t].result = [code |-> 0, reason |-> "download",
                                           dubbing_id |-> NoJob]]
              /\ temps' = (temps \cup Files(t, ProbeTempNames)) \ Files(t, ProbeTempNames)
    /\ resp' = NoResp
    /\ UNCHANGED <<videos, subtitles, storage, users, provider, nreq, client, compiled>>

\* videos.py 343-357: account lookup and quota pre-check (both raise
\* HTTPException, which line 463 re-raises without touching the status);
\* 359-361: every way out unlinks the temporary file.
GenQuota(t) ==
    /\ task[t].pc = "quota"
    /\ \E found \in BOOLEAN :
         IF ~found
         THEN task' = [task EXCEPT ![t].pc = "done",
                         ![t].result = [code |-> 404, reason |-> "user_not_found",
                                        dubbing_id |-> NoJob]]
         ELSE IF QuotaRejects(MinutesRemaining(users), task[t].duration, task[t].cost)
         THEN task' = [task EXCEPT ![t].pc = "done",
                         ![t].result = [code |-> 402, reason |-> "insufficient_minutes",
                                        dubbing_id |-> NoJob]]
         ELSE task' = [task EXCEPT
                         ![t].pc = IF task[t].dub THEN "dub_create" ELSE "sub_gen"]
    /\ temps' = temps \ Files(t, ProbeTempNames)
    /\ resp' = NoResp
    /\ UNCHANGED <<videos, subtitles, storage, users, provider, nreq, client, compiled>>

FreeJobs == {j \in JobIds : provider[j] = "none"}

\* videos.py 369-379, dubbing_service.py 19-79: create the dub job.
GenDubCreate(t) ==
    /\ task[t].pc = "dub_create"
    /\ \E ok \in BOOLEAN :
         IF ok /\ FreeJobs # {}
         THEN LET j == CHOOSE x \in FreeJobs : \A y \in FreeJobs : x <= y IN
              /\ provider' = [provider EXCEPT ![j] = "dubbing"]
              /\ task' = [task EXCEPT ![t].pc = "dub_persist", ![t].job = j]
         ELSE /\ task' = [task EXCEPT ![t].pc = "fail",
                            ![t].result = [code |-> 0, reason |-> "dub_create",
                                           dubbing_id |-> NoJob]]
              /\ UNCHANGED provider
    /\ resp' = NoResp
    /\ UNCHANGED <<videos, subtitles, storage, users, nreq, client, temps, compiled>>

\* Variant: the flag is set whenever the dubbing columns are written.
UpdateVideoDubbingMut(row, dubbing_id, dubbed_video_url, is_dubbed_audio) ==
    [row EXCEPT !.dubbing_id = dubbing_id,
                !.dubbed_video_url = dubbed_video_url,
                !.is_dubbed_audio = TRUE]

\* database.py 335-355: one update of the three columns.
UpdateVideoDubbing(row, dubbing_id, dubbed_video_url, is_dubbed_audio) ==
    [row EXCEPT !.dubbing_id = dubbing_id,
                !.dubbed_video_url = dubbed_video_url,
                !.is_dubbed_audio = is_dubbed_audio]

\* videos.py 381-388: the job is stored on the asset with no URL and the
\* flag off; a failed write is only logged.
GenDubPersist(t) ==
    /\ task[t].pc = "dub_persist"
    /\ \E ok \in BOOLEAN :
         videos' = IF ok /\ Stored(task[t].video)
                   THEN [videos EXCEPT ![task[t].video] =
                           UpdateVideoDubbing(@, task[t].job, NoUrl, FALSE)]
                   ELSE videos
    /\ task' = [task EXCEPT ![t].pc = "dub_status"]
    /\ resp' = NoResp
    /\ UNCHANGED <<subtitles, storage, users, provider, nreq, client, temps, compiled>>

\* videos.py 390-392: status := processing once more; failure is only logged.
GenDubStatus(t) ==
    /\ task[t].pc = "dub_status"
    /\ \E ok \in BOOLEAN :
         videos' = IF ok /\ Stored(task[t].video)
                   THEN [videos EXCEPT ![task[t].video].status = "processing"]
                   ELSE videos
    /\ task' = [task EXCEPT ![t].pc = "usage_read"]
    /\ resp' = NoResp
    /\ UNCHANGED <<subtitles, storage, users, provider, nreq, client, temps, compiled>>

\* subtitle_service.py 119-121: "Always translate to target language using
\* GPT" - whether the transcript is sent to the translation model.
NeedsTranslation(language, transcript_language) == TRUE

\* subtitle_service.py 79-150: download, transcribe, translate, upload; any
\* failure is re-raised as one Exception.  task.translated: the translation
\* model was called.
GenSubtitles(t) ==
    /\ task[t].pc = "sub_gen"
    /\ LET v == task[t].video
           downloaded == PathOfUrl(VideoUrl(v)) \in storage
       IN
       \E outcome \in {"ok", "download", "transcription", "translation", "upload"} :
         LET called == /\ downloaded
                       /\ outcome \in {"ok", "translation", "upload"}
                       /\ NeedsTranslation(Language(v), TranscriptLanguage(v))
         IN
         IF outcome = "ok" /\ downloaded
         THEN LET path == SubtitlePath(v, task[t].req) IN
              /\ storage' = storage \cup {path}
              /\ task' = [task EXCEPT ![t].pc = "sub_save",
                            ![t].sub_url = GetFileUrl(path),
                            ![t].translated = called]
         ELSE /\ task' = [task EXCEPT ![t].pc = "fail",
                            ![t].translated = called,
                            ![t].result = [code |-> 0,
                                           reason |-> IF ~downloaded THEN "download"
                                                      ELSE outcome,
                                           dubbing_id |-> NoJob]]
              /\ UNCHANGED storage
    /\ temps' = (temps \cup Files(t, ServiceTempNames)) \ Files(t, ServiceTempNames)
    /\ resp' = NoResp
    /\ UNCHANGED <<videos, subtitles, users, provider, nreq, client, compiled>>

\* subtitles.video_id references the videos table (the reference that makes
\* the delete of a video cascade, videos.py 579): a row for a video that is
\* gone cannot be inserted.
SubtitleInsertable(v) == Stored(v)

\* Variant: a failed insert is only logged and the request goes on.
GenSaveSubtitleMut(t) ==
    /\ task[t].pc = "sub_save"
    /\ \E ok \in BOOLEAN :
         /\ subtitles' = IF ok /\ SubtitleInsertable(task[t].video)
                         THEN subtitles \cup
                                {[video_id |-> task[t].video,
                                  subtitle_url |-> task[t].sub_url]}
                         ELSE subtitles
         /\ task' = [task EXCEPT ![t].pc = "sub_status"]
    /\ resp' = NoResp
    /\ UNCHANGED <<videos, storage, users, provider, nreq, client, temps, compiled>>

\* videos.py 427-441, database.py 95-116: insert the subtitle row.
GenSaveSubtitle(t) ==
    /\ task[t].pc = "sub_save"
    /\ \E ok \in BOOLEAN :
         IF ok /\ SubtitleInsertable(task[t].video)
         THEN /\ subtitles' = subtitles \cup
                    {[video_id |-> task[t].video, subtitle_url |-> task[t].sub_url]}
              /\ task' = [task EXCEPT ![t].pc = "sub_status"]
         ELSE /\ task' = [task EXCEPT ![t].pc = "done",
                            ![t].result = [code |-> 500, reason |-> "save_subtitle",
                                           dubbing_id |-> NoJob]]
              /\ UNCHANGED subtitles
    /\ resp' = NoResp
    /\ UNCHANGED <<videos, storage, users, provider, nreq, client, temps, compiled>>

\* Whether videos.py 444-449 goes on to update_user_usage, given the result
\* of update_video_status(video_uuid, "completed").
RecordsUsageAfterStatus(status_updated) == ~status_updated

\* videos.py 443-461: status := completed; update_user_usage sits inside the
\* branch taken when that write did not succeed.
GenCompleted(t) ==
    /\ task[t].pc = "sub_status"
    /\ \E ok \in BOOLEAN :
         /\ videos' = IF ok /\ Stored(task[t].video)
                      THEN [videos EXCEPT ![task[t].video].status = "completed"]
                      ELSE videos
         /\ task' = IF RecordsUsageAfterStatus(ok /\ Stored(task[t].video))
                    THEN [task EXCEPT ![t].pc = "usage_read"]
                    ELSE [task EXCEPT ![t].pc = "done",
                            ![t].result = [code |-> 200, reason |-> "subtitles_generated",
                                           dubbing_id |-> NoJob]]
    /\ resp' = NoResp
    /\ UNCHANGED <<subtitles, storage, users, provider, nreq, client, temps, compiled>>

\* Variant: a failed request puts the asset back in the queue.
StatusOnErrorMut == "queued"

\* videos.py 468: the status written when processing raised.
StatusOnError == "failed"

\* videos.py 465-472: any other exception: status := failed, answer 500.
GenFail(t) ==
    /\ task[t].pc = "fail"
    /\ videos' = IF Stored(task[t].video)
                 THEN [videos EXCEPT ![task[t].video].status = StatusOnError]
                 ELSE videos
    /\ task' = [task EXCEPT ![t].pc = "done", ![t].result.code = 500]
    /\ resp' = NoResp
    /\ UNCHANGED <<subtitles, storage, users, provider, nreq, client, temps, compiled>>

\* The request is cancelled, or its worker dies, while it waits at one of its
\* calls: asyncio.CancelledError is not an Exception, so neither handler of
\* videos.py 463-472 runs and nothing more is written.  A cancellation still
\* runs the finally clause of 359-361; a dead worker leaves its file.
GenInterrupt(t) ==
    /\ task[t].op = "generate"
    /\ task[t].pc \notin {"idle", "done"}
    /\ task' = [task EXCEPT ![t].pc = "done",
                            ![t].result = [code |-> 0, reason |-> "interrupted",
                                           dubbing_id |-> NoJob]]
    /\ \E cancelled \in BOOLEAN :
         temps' = IF cancelled THEN temps \ TempsOf(t) ELSE temps
    /\ resp' = NoResp
    /\ UNCHANGED <<videos, subtitles, storage, users, provider, nreq, client, compiled>>

\* ------------------------------------------------------- dubbing handlers
\* dubbing_service.py 110-115, 124: provider status vocabulary -> the
\* service's vocabulary; an unknown status reads as "processing".
StatusMapping(raw) ==
    CASE raw = "dubbed" -> "completed"
      [] raw = "dubbing" -> "processing"
      [] raw = "failed" -> "failed"
      [] OTHER -> "processing"

\* Variant: every job that has not failed is taken as finished.
DubReadyMut(status_value) == status_value # "failed"

\* videos.py 830: the status value get_dubbed_video accepts as finished.
DubReady(status_value) == status_value = "dubbed"

\* Variant: the stored URL is never used.
HasDubbedVideoMut(row) == FALSE

\* videos.py 809: the asset already has its dubbed video.
HasDubbedVideo(row) == row.dubbed_video_url # NoUrl

\* videos.py 1204-1209: the dubbing id must be the one stored on the asset.
ValidDubbingId(row, dubbing_id) ==
    row.dubbing_id # NoJob /\ row.dubbing_id = dubbing_id

\* The "error" text the provider attaches to a job that failed: the first job
\* fails with a text, the others without one.
ProviderError(j) == IF j = 1 THEN "quota_exceeded" ELSE "none"

\* dubbing_service.py 128 and videos.py 757: the error text of the provider's
\* answer as the poll handler reads it ("error" is always a key of the
\* service's answer, so the handler's default never applies).
ErrorDetail(j) == ProviderError(j)

\* Variant: the poll never takes the failed branch.
PollFailedMut(status_value) == FALSE

\* videos.py 755: the poll found the job failed.
PollFailed(status_value) == status_value = "failed"

\* The job moves on at the provider: dubbing -> dubbed | failed.
ProviderProgress(j) ==
    /\ provider[j] = "dubbing"
    /\ \E s \in {"dubbed", "failed"} : provider' = [provider EXCEPT ![j] = s]
    /\ resp' = NoResp
    /\ UNCHANGED <<videos, subtitles, storage, users, task, nreq, client, temps, compiled>>

\* videos.py 739-772: one poll of the dub job.
CheckDubbingStatus(v, j) ==
    /\ LET base == [NoResp EXCEPT !.op = "poll", !.video = v, !.job = j,
                                  !.raw = provider[j]] IN
       IF ~Stored(v)
       THEN /\ resp' = [base EXCEPT !.code = 404, !.reason = "video_not_found"]
            /\ UNCHANGED videos
       ELSE IF ~ValidDubbingId(videos[v], j)
       THEN /\ resp' = [base EXCEPT !.code = 400, !.reason = "invalid_dubbing_id"]
            /\ UNCHANGED videos
       ELSE \E answered \in BOOLEAN :
              IF ~answered
              THEN /\ resp' = [base EXCEPT !.code = 500, !.reason = "status_unavailable",
                                           !.provider_calls = 1]
                   /\ UNCHANGED videos
              ELSE IF PollFailed(StatusMapping(provider[j]))
              THEN /\ videos' = [videos EXCEPT ![v].status = "failed"]
                   /\ resp' = [base EXCEPT !.code = 500, !.reason = "dubbing_failed",
                                           !.provider_calls = 1,
                                           !.detail = ErrorDetail(j)]
              ELSE /\ resp' = [base EXCEPT !.code = 200,
                                           !.reason = StatusMapping(provider[j]),
                                           !.provider_calls = 1]
                   /\ UNCHANGED videos
    /\ UNCHANGED <<subtitles, storage, users, provider, task, nreq, temps, compiled>>

\* A poll sent by any caller, outside the poll loop.
Poll(v, j) == CheckDubbingStatus(v, j) /\ UNCHANGED client

\* videos.py 804-876 with dubbing_service.py 134-198: fetch the dubbed video.
GetDubbedVideo(v, j) ==
    /\ LET base == [NoResp EXCEPT !.op = "fetch", !.video = v, !.job = j,
                                  !.raw = provider[j]]
           path == DubbedPath(v, NextN("dubbed_videos", v))
       IN
       IF ~Stored(v)
       THEN /\ resp' = [base EXCEPT !.code = 404, !.reason = "video_not_found"]
            /\ UNCHANGED <<videos, storage>>
       ELSE IF ~ValidDubbingId(videos[v], j)
       THEN /\ resp' = [base EXCEPT !.code = 400, !.reason = "invalid_dubbing_id"]
            /\ UNCHANGED <<videos, storage>>
       ELSE IF HasDubbedVideo(videos[v])
       THEN /\ resp' = [base EXCEPT !.code = 200, !.reason = "already_available",
                                    !.url = videos[v].dubbed_video_url]
            /\ UNCHANGED <<videos, storage>>
       ELSE \E answered \in BOOLEAN :
              IF ~answered
              THEN /\ resp' = [base EXCEPT !.code = 500, !.reason = "status_unavailable",
                                           !.provider_calls = 1]
                   /\ UNCHANGED <<videos, storage>>
              ELSE IF ~DubReady(StatusMapping(provider[j]))
              THEN /\ resp' = [base EXCEPT !.code = 400, !.reason = "not_ready",
                                           !.provider_calls = 1]
                   /\ UNCHANGED <<videos, storage>>
              ELSE \E fetched \in BOOLEAN :
                     IF ~fetched
                     THEN /\ resp' = [base EXCEPT !.code = 500,
                                                  !.reason = "fetch_failed",
                                                  !.provider_calls = 2]
                          /\ UNCHANGED <<videos, storage>>
                     ELSE \E saved \in BOOLEAN :
                            IF ~saved
                            THEN /\ storage' = storage \cup {path}
                                 /\ resp' = [base EXCEPT !.code = 500,
                                                         !.reason = "update_failed",
                                                         !.provider_calls = 2]
                                 /\ UNCHANGED videos
                            ELSE \E completed \in BOOLEAN :
                                 /\ storage' = storage \cup {path}
                                 /\ videos' = [videos EXCEPT ![v] =
                                       [UpdateVideoDubbing(@, j, GetFileUrl(path), TRUE)
                                          EXCEPT !.status = IF completed THEN "completed"
                                                            ELSE @]]
                                 /\ resp' = [base EXCEPT !.code = 200,
                                                         !.reason = "retrieved",
                                                         !.url = GetFileUrl(path),
                                                         !.provider_calls = 2]
    /\ UNCHANGED <<subtitles, users, provider, task, nreq, client, temps, compiled>>

\* dubbing_service.py 147-198, called on its own: stream the dubbed audio of
\* job j into a temporary file and upload it as the dubbed file of asset v.
\* Every way out (non-200 answer, failed upload, exception, success) passes
\* the finally clause of 192-198.
GetDubbedAudio(v, j) ==
    /\ nreq < MaxRequests
    /\ nreq' = nreq + 1
    /\ LET base == [NoResp EXCEPT !.op = "dubbed_audio", !.video = v, !.job = j]
           path == DubbedPath(v, NextN("dubbed_videos", v))
       IN
       \E outcome \in {"ok", "provider", "upload"} :
         IF outcome = "ok" /\ provider[j] = "dubbed"
         THEN /\ storage' = storage \cup {path}
              /\ resp' = [base EXCEPT !.reason = "uploaded", !.url = GetFileUrl(path)]
         ELSE /\ resp' = [base EXCEPT !.reason = IF outcome = "ok" THEN "provider"
                                                 ELSE outcome]
              /\ UNCHANGED storage
    /\ temps' = (temps \cup Files("audio", AudioTempNames)) \ Files("audio", AudioTempNames)
    /\ UNCHANGED <<videos, subtitles, users, provider, task, client, compiled>>

\* ------------------------------------------------------------ burn-in
\* videos.py 1011-1092 with video_processor.py 166-338: burn subtitle row s
\* into video v.  The rendered file is named by the time of the request.
\* The processor answers None for a failed download (207-210), a converted
\* file without its style or events section (265, 277-279), a failed render
\* (306-317) and a failed upload (327-328); resp.stage keeps which one it
\* was, the caller is told "Failed to burn subtitles into video" each time.
BurnSubtitles(v, s) ==
    /\ nreq < MaxRequests
    /\ nreq' = nreq + 1
    /\ LET base == [NoResp EXCEPT !.op = "burn", !.video = v]
           row == videos[v]
           is_dubbed == HasDubbedVideo(row)
           source == IF is_dubbed THEN row.dubbed_video_url ELSE row.video_url
           out == ProcessedPath(v, nreq + 1)
       IN
       IF ~Stored(v)
       THEN /\ resp' = [base EXCEPT !.code = 404, !.reason = "video_not_found"]
            /\ UNCHANGED <<videos, storage, temps>>
       ELSE IF s.video_id # v
       THEN /\ resp' = [base EXCEPT !.code = 400, !.reason = "not_this_video"]
            /\ UNCHANGED <<videos, storage, temps>>
       ELSE \E outcome \in {"ok", "conversion", "render", "upload"} :
            /\ temps' = (temps \cup Files("burn", BurnTempNames))
                            \ Files("burn", BurnCleanedNames)
            /\
              IF \/ outcome # "ok"
                 \/ PathOfUrl(source) \notin storage
                 \/ PathOfUrl(s.subtitle_url) \notin storage
              THEN /\ resp' = [base EXCEPT !.code = 500, !.reason = "burn_failed",
                                             !.stage =
                                               IF \/ PathOfUrl(source) \notin storage
                                                  \/ PathOfUrl(s.subtitle_url) \notin storage
                                               THEN "download" ELSE outcome]
                   /\ UNCHANGED <<videos, storage>>
              ELSE \E old_deleted \in (IF is_dubbed THEN BOOLEAN ELSE {FALSE}) :
                   \E saved \in BOOLEAN :
                     /\ storage' = (storage \cup {out}) \
                                      (IF old_deleted THEN {PathOfUrl(source)} ELSE {})
                     /\ videos' =
                          IF ~saved THEN videos
                          ELSE IF is_dubbed
                          THEN [videos EXCEPT ![v].dubbed_video_url = GetFileUrl(out),
                                              ![v].burned_video_url = GetFileUrl(out)]
                          ELSE [videos EXCEPT ![v].burned_video_url = GetFileUrl(out)]
                     /\ resp' = [base EXCEPT !.code = 200, !.reason = "burned",
                                             !.url = GetFileUrl(out)]
    /\ UNCHANGED <<subtitles, users, provider, task, client, compiled>>

\* ------------------------------------------------------------ delete_video
\* Variant: a failed provider-side deletion ends the request.
SwallowsDubbingErrorMut == FALSE

\* videos.py 516-523: dubbing_service.delete_dubbing is called inside
\* try/except Exception.  DubbingService (dubbing_service.py 14-200) has no
\* such method, so the call raises AttributeError every time; it is logged.
SwallowsDubbingError == TRUE

\* Variant: the burned file is forgotten.
DeleteTargetsMut(row, subs) ==
    ({PathOfUrl(row.video_url), PathOfUrl(row.dubbed_video_url)} \ {NoPath})
        \cup {PathOfUrl(x.subtitle_url) : x \in subs}

\* videos.py 531-567: the objects delete_file is called on.
DeleteTargets(row, subs) ==
    ({PathOfUrl(row.video_url), PathOfUrl(row.dubbed_video_url)} \ {NoPath})
        \cup (IF row.burned_video_url # NoUrl
                 /\ row.burned_video_url # row.dubbed_video_url
              THEN {PathOfUrl(row.burned_video_url)} ELSE {})
        \cup {PathOfUrl(x.subtitle_url) : x \in subs}

\* videos.py 579: "this will cascade delete subtitles" - the rows of the
\* 'subtitles' table that remain when the row of video v is deleted.
CascadeDelete(v) == subtitles \ SubtitlesOf(v)

\* videos.py 499-596, database.py 86-93, s3.py 73-104.
DeleteVideo(v) ==
    /\ LET row == videos[v]
           base == [NoResp EXCEPT !.op = "delete", !.video = v,
                                  !.job = row.dubbing_id]
           targets == DeleteTargets(row, SubtitlesOf(v))
       IN
       IF ~Stored(v)
       THEN /\ resp' = [base EXCEPT !.code = 404, !.reason = "video_not_found"]
            /\ UNCHANGED <<videos, subtitles, storage>>
       ELSE IF row.dubbing_id # NoJob /\ ~SwallowsDubbingError
       THEN /\ resp' = [base EXCEPT !.code = 500, !.reason = "dubbing_delete_failed"]
            /\ UNCHANGED <<videos, subtitles, storage>>
       ELSE \E failed \in SUBSET targets :
              /\ (targets \ storage) \subseteq failed
              /\ storage' = storage \ (targets \ failed)
              /\ \E meta_ok \in BOOLEAN :
                   IF meta_ok
                   THEN /\ videos' = [videos EXCEPT ![v] = NoVideo]
                        /\ subtitles' = CascadeDelete(v)
                        /\ resp' = [base EXCEPT !.code = 200, !.reason = "deleted",
                                                !.attempted = targets,
                                                !.failed = failed]
                   ELSE /\ resp' = [base EXCEPT !.code = 500,
                                                !.reason = "metadata_delete_failed",
                                                !.attempted = targets,
                                                !.failed = failed]
                        /\ UNCHANGED <<videos, subtitles>>
    /\ UNCHANGED <<users, provider, task, nreq, client, temps, compiled>>

\* ------------------------------------------------- the caller's poll loop
\* Variant: the loop waits for the provider's word for a finished job.
PollCompletedMut(r) == r.code = 200 /\ r.reason = "dubbed"

\* test_dubbing_flow.py 66-73: the poll was answered 2xx with status
\* "completed".
PollCompleted(r) == r.code = 200 /\ r.reason = "completed"

\* test_dubbing_flow.py 66, 77-78: raise_for_status or the failed status
\* raises inside the try block.
PollRaised(r) == r.code # 200 \/ r.reason = "failed"

\* test_dubbing_flow.py 60-90: the loop after one more poll answered r.
\* An exception is swallowed except on the last attempt (83-88); the loop
\* that runs out without break raises the timeout (89-90).
ClientStep(c, r) ==
    LET n == c.attempt + 1
        last == n >= MaxPollAttempts
    IN  [c EXCEPT !.attempt = n,
                  !.state = IF PollCompleted(r) THEN "completed"
                            ELSE IF PollRaised(r)
                                 THEN (IF last THEN "failed" ELSE "polling")
                                 ELSE (IF last THEN "timed_out" ELSE "polling")]

\* test_dubbing_flow.py 25-40: the caller sends its generate request, with
\* enable_dubbing true, before it polls.
ClientGenerate(t) ==
    /\ client.state = "idle"
    /\ GenStart(t)
    /\ task'[t].dub

\* test_dubbing_flow.py 36-53: the caller got 200 and a dubbing_id from its
\* generate request and enters the loop.
ClientStart(t) ==
    /\ client.state = "idle"
    /\ task[t].pc = "done" /\ task[t].op = "generate"
    /\ task[t].result.code = 200
    /\ task[t].result.dubbing_id # NoJob
    /\ client' = [state |-> "polling", attempt |-> 0, video |-> task[t].video,
                  job |-> task[t].result.dubbing_id]
    /\ task' = [task EXCEPT ![t] = IdleTask]
    /\ resp' = NoResp
    /\ UNCHANGED <<videos, subtitles, storage, users, provider, nreq, temps, compiled>>

\* test_dubbing_flow.py 60-88: one iteration of the loop.
ClientPoll ==
    /\ client.state = "polling"
    /\ CheckDubbingStatus(client.video, client.job)
    /\ client' = ClientStep(client, resp')

\* ------------------------------------------------------- style compiler
\* The JSON values are defined with the rows, above.
\* dict.get(key, default)
Get(d, key, default) ==
    IF d.items[key] # Absent THEN d.items[key] ELSE default

\* Python truth value of the column value ("not subtitle_styles").
Truthy(d) ==
    CASE d.type = "dict" -> \E k \in StyleKeys : d.items[k] # Absent
      [] d.type = "list" -> TRUE
      [] d.type = "str" -> d.text # ""
      [] OTHER -> FALSE

\* str(x).lower() on the texts the inputs hold.
Lower(x) ==
    CASE x = "LARGE" -> "large"
      [] x = "Top" -> "top"
      [] OTHER -> x

\* The characters of the color texts the inputs hold.
Chars(x) ==
    CASE x = "#FF0000" -> <<"#", "F", "F", "0", "0", "0", "0">>
      [] x = "#00FF80" -> <<"#", "0", "0", "F", "F", "8", "0">>
      [] x = "#FFFFFF" -> <<"#", "F", "F", "F", "F", "F", "F">>
      [] x = "#FFF" -> <<"#", "F", "F", "F">>
      [] x = "red" -> <<"r", "e", "d">>
      [] x = "&HFFFFFF" -> <<"&", "H", "F", "F", "F", "F", "F", "F">>
      [] x = "&H00" -> <<"&", "H", "0", "0">>
      [] x = "&H00FFFFFF" -> <<"&", "H", "0", "0", "F", "F", "F", "F", "F", "F">>
      [] x = "&H" -> <<"&", "H">>
      [] OTHER -> <<>>

\* s[from:to] of Python, positions counted from 0, `to` excluded.
Slice(s, from, to) ==
    SubSeq(s, from + 1, Min(to, Len(s)))

\* s.replace(c, "")
Without(s, c) == SelectSeq(s, LAMBDA x : x # c)

\* json.loads on the texts the inputs hold; "invalid" stands for
\* JSONDecodeError.
ParseJson(text) ==
    CASE text = "null" -> NullStyles
      [] text = "{}" -> EmptyStyles
      [] text = "{\"position\": \"top\"}" ->
            DictStyles([NoItems EXCEPT !["position"] = StrValue("top")])
      [] OTHER -> [type |-> "invalid", items |-> NoItems, text |-> text]

\* Variant: the channels keep their order.
ConvertColorToAssMut(color) ==
    IF color.type # "str"
    THEN Chars("&HFFFFFF")
    ELSE LET hex == Without(Chars(color.v), "#")
             r == Slice(hex, 0, 2)
             g == Slice(hex, 2, 4)
             b == Slice(hex, 4, Len(hex))
         IN Chars("&H") \o r \o g \o b

\* video_processor.py 20-31: #RRGGBB -> &HBBGGRR; a value that is not a
\* string raises inside the try and gives white.
ConvertColorToAss(color) ==
    IF color.type # "str"
    THEN Chars("&HFFFFFF")
    ELSE LET hex == Without(Chars(color.v), "#")
             r == Slice(hex, 0, 2)
             g == Slice(hex, 2, 4)
             b == Slice(hex, 4, Len(hex))
         IN Chars("&H") \o b \o g \o r

\* video_processor.py 33-54
GetAlignmentValue(position, alignment) ==
    IF position = "top"
    THEN (IF alignment = "left" THEN 7 ELSE IF alignment = "right" THEN 9 ELSE 8)
    ELSE (IF alignment = "left" THEN 1 ELSE IF alignment = "right" THEN 3 ELSE 2)

\* video_processor.py 56-63
GetFontSizeMultiplier(size_setting) ==
    CASE Lower(size_setting) = "large" -> 32
      [] Lower(size_setting) = "medium" -> 24
      [] Lower(size_setting) = "small" -> 16
      [] OTHER -> 16

\* video_processor.py 65-72: the language -> font lookup.  No line of the
\* program calls it.
GetFontForLanguage(font_family, language) ==
    CASE language = "zh" -> "Noto Sans CJK SC"
      [] language = "ja" -> "Noto Sans CJK JP"
      [] language = "ko" -> "Noto Sans CJK KR"
      [] OTHER -> font_family

\* round(base / 1.5, 2), in hundredths of a unit.
FinalFontSize(base_font_size) == (base_font_size * 400 + 3) \div 6

\* The "Style: Default,..." line of a stylesheet; sizes in hundredths.
NoSheet ==
    [fontname |-> "none", fontsize |-> 0, primary |-> <<>>, bold |-> 0, italic |-> 0,
     outline |-> 0, shadow |-> 0, alignment |-> 0,
     margin_l |-> 0, margin_r |-> 0, margin_v |-> 0]

\* video_processor.py 151-164: the stylesheet returned when the conversion
\* raised.
FallbackSheet ==
    [fontname |-> "Arial", fontsize |-> 2400, primary |-> Chars("&H00FFFFFF"),
     bold |-> 0, italic |-> 0, outline |-> 1, shadow |-> 1, alignment |-> 2,
     margin_l |-> 20, margin_r |-> 20, margin_v |-> 40]

\* video_processor.py 92-149.  A value that is not a dict has no get():
\* line 108 raises and the except clause of 151 answers.
ConvertStylesToAss(subtitle_styles, base_font_size, language) ==
    IF subtitle_styles.type # "dict"
    THEN FallbackSheet
    ELSE LET custom == Truthy(subtitle_styles)
             base == IF custom
                     THEN GetFontSizeMultiplier(
                            Lower(Get(subtitle_styles, "fontSize", StrValue("small")).v))
                     ELSE 24
             primary_color ==
                 ConvertColorToAss(Get(subtitle_styles, "color", StrValue("#FFFFFF")))
             position == Lower(Get(subtitle_styles, "position", StrValue("bottom")).v)
             alignment == Lower(Get(subtitle_styles, "alignment", StrValue("center")).v)
             font_weight == Lower(Get(subtitle_styles, "fontWeight", StrValue("normal")).v)
             font_style == Lower(Get(subtitle_styles, "fontStyle", StrValue("normal")).v)
         IN [fontname |-> "Arial",
             fontsize |-> FinalFontSize(base),
             primary |-> Chars("&H00") \o Slice(primary_color, 2, Len(primary_color)),
             bold |-> IF font_weight = "bold" THEN 1 ELSE 0,
             italic |-> IF font_style = "italic" THEN 1 ELSE 0,
             outline |-> IF custom THEN 0 ELSE 1,
             shadow |-> IF custom THEN 0 ELSE 1,
             alignment |-> GetAlignmentValue(position, alignment),
             margin_l |-> 20, margin_r |-> 20,
             margin_v |-> IF position = "top" THEN 30 ELSE 40]

\* Variant: a null column is handed to the compiler as it is.
StylesForBurnMut(column) ==
    IF column.type = "str"
    THEN (IF ParseJson(column.text).type = "invalid" THEN EmptyStyles
          ELSE ParseJson(column.text))
    ELSE column

\* video_processor.py 226-242: the value the burn-in hands to the compiler
\* for the subtitle_styles column it read.
StylesForBurn(column) ==
    IF column.type = "null"
    THEN EmptyStyles
    ELSE IF column.type = "str"
    THEN (IF ParseJson(column.text).type = "invalid" THEN EmptyStyles
          ELSE ParseJson(column.text))
    ELSE column

\* video_processor.py 222: min(height // 32, 18) for a 720-line video; the
\* compiler overwrites it at 96 and 102.
BaseFontSize == Min(720 \div 32, 18)

NoCompiled == [column |-> NullStyles, language |-> "none", sheet |-> NoSheet]

\* video_processor.py 226-259: the burn-in reads the column and compiles it.
Compile ==
    /\ compiled.sheet = NoSheet
    /\ compiled.language # "none"
    /\ compiled' = [compiled EXCEPT !.sheet =
            ConvertStylesToAss(StylesForBurn(compiled.column), BaseFontSize,
                               compiled.language)]
    /\ UNCHANGED <<videos, subtitles, storage, users, provider, task, resp, nreq,
                   client, temps>>

\* ----------------------------------------------------------- upload_video
\* The subtitle_styles form field: not sent, text that is no JSON, JSON the
\* SubtitleStyles model refuses, JSON that is no object, and a valid style.
StyleForms == {"none", "malformed", "invalid", "nondict", "valid"}

\* The style a request with a valid form field carries.
UploadStyle ==
    DictStyles([NoItems EXCEPT !["fontSize"] = StrValue("large"),
                               !["color"] = StrValue("#FF0000"),
                               !["position"] = StrValue("top"),
                               !["alignment"] = StrValue("left")])

\* videos.py 98-112, 211: parsed_subtitle_styles.dict(), or None.
ParsedStyles(form) == IF form = "valid" THEN UploadStyle ELSE NullStyles

\* The requests of a run: file name present or not, the style field, the
\* size in MB, the content type, and the duration the probe finds (-1: the
\* probe failed).
UploadInputs(v) ==
    [filename : BOOLEAN, styles : StyleForms,
     size : {5, MaxVideoSizeMB + 1},
     content_type : {"video/mp4", "text/plain"},
     probed : {-1, 0, VideoDuration(v), MaxVideoDurationMinutes + 1}]

\* Variant: no limit on the duration.
DurationValidMut(duration) == TRUE

\* video.py 37
DurationValid(duration) == duration <= MaxVideoDurationMinutes

\* video.py 27-39: (is_valid, duration_minutes, estimated_cost)
ValidateVideoDuration(probed) ==
    IF probed <= 0
    THEN [is_valid |-> FALSE, duration |-> 0, cost |-> 0]
    ELSE [is_valid |-> DurationValid(probed), duration |-> probed,
          cost |-> EstimateWhisperCost(probed)]

\* videos.py 91-150: the first check that answers 400, in the order of the
\* code; "none" if the request passes them all.
InputError(u) ==
    CASE ~u.filename -> "no_file"
      [] u.styles = "malformed" -> "styles_json"
      [] u.styles = "invalid" -> "styles_invalid"
      [] u.size > MaxVideoSizeMB -> "too_large"
      [] u.content_type \notin AllowedVideoTypes -> "bad_type"
      [] ~ValidateVideoDuration(u.probed).is_valid -> "bad_duration"
      [] OTHER -> "none"

\* database.py 44-63: the row inserted for video_data.  db_video_data is
\* built from seven named keys; "subtitle_styles" is not one of them, so the
\* column keeps its null.
SaveVideoMetadata(video_data) ==
    [status |-> "queued", video_url |-> video_data.video_url,
     duration_minutes |-> video_data.duration_minutes,
     dubbing_id |-> NoJob, dubbed_video_url |-> NoUrl, burned_video_url |-> NoUrl,
     is_dubbed_audio |-> FALSE, subtitle_styles |-> NullStyles]

\* videos.py 140: the file the content is written to for the probe.
UploadTempNames == {"probe"}

\* Variant: the uploaded object is left where it is.
DeletesUploadedFileMut == FALSE

\* videos.py 215-217, 222-224: when save_video_metadata returned nothing,
\* delete_file(file_path) is called on the object just uploaded (and once
\* more by the except clause that catches the 500 raised at 218).  The
\* result of delete_file is discarded; the deletion is taken to succeed.
DeletesUploadedFile == TRUE

\* videos.py 89-260: upload file v with request u.
Upload(v, u) ==
    /\ nreq < MaxRequests
    /\ nreq' = nreq + 1
    /\ ~Stored(v)
    /\ VideoPath(v) \notin storage
    /\ LET base == [NoResp EXCEPT !.op = "upload", !.video = v, !.request = u]
           val == ValidateVideoDuration(u.probed)
           path == VideoPath(v)
           video_data == [video_url |-> GetFileUrl(path),
                          duration_minutes |-> val.duration,
                          subtitle_styles |-> ParsedStyles(u.styles)]
           probing == /\ u.filename
                      /\ u.styles \in {"none", "valid"}
                      /\ u.size <= MaxVideoSizeMB
                      /\ u.content_type \in AllowedVideoTypes
       IN
       /\ temps' = IF probing
                   THEN (temps \cup Files("upload", UploadTempNames))
                            \ Files("upload", UploadTempNames)
                   ELSE temps
       /\ IF u.filename /\ u.styles = "nondict"
          THEN /\ resp' = [base EXCEPT !.code = 500, !.reason = "unexpected"]
               /\ UNCHANGED <<videos, storage>>
          ELSE IF InputError(u) # "none"
          THEN /\ resp' = [base EXCEPT !.code = 400, !.reason = InputError(u)]
               /\ UNCHANGED <<videos, storage>>
          ELSE \E found \in BOOLEAN :
               IF ~found
               THEN /\ resp' = [base EXCEPT !.code = 404, !.reason = "user_not_found"]
                    /\ UNCHANGED <<videos, storage>>
               ELSE IF QuotaRejects(MinutesRemaining(users), val.duration, val.cost)
               THEN /\ resp' = [base EXCEPT !.code = 402,
                                            !.reason = "insufficient_minutes"]
                    /\ UNCHANGED <<videos, storage>>
               ELSE \E uploaded \in BOOLEAN :
                    IF ~uploaded
                    THEN /\ resp' = [base EXCEPT !.code = 500,
                                                 !.reason = "upload_failed"]
                         /\ UNCHANGED <<videos, storage>>
                    ELSE \E saved \in BOOLEAN :
                         IF saved
                         THEN /\ storage' = storage \cup {path}
                              /\ videos' = [videos EXCEPT ![v] =
                                               SaveVideoMetadata(video_data)]
                              /\ resp' = [base EXCEPT !.code = 200,
                                                      !.reason = "uploaded",
                                                      !.url = GetFileUrl(path)]
                         ELSE /\ storage' = IF DeletesUploadedFile THEN storage
                                            ELSE storage \cup {path}
                              /\ resp' = [base EXCEPT !.code = 500,
                                                      !.reason = "save_failed"]
                              /\ UNCHANGED videos
    /\ UNCHANGED <<subtitles, users, provider, task, client, compiled>>

\* --------------------------------------------------------- initial states
FreshVideo(v) ==
    [status |-> "queued", video_url |-> VideoUrl(v),
     duration_minutes |-> VideoDuration(v), dubbing_id |-> NoJob, dubbed_video_url |-> NoUrl,
     burned_video_url |-> NoUrl, is_dubbed_audio |-> FALSE,
     subtitle_styles |-> NullStyles]

InitUsers ==
    \E a \in AllowedChoices, f \in InitialFreeUsed :
        users = [minutes_consumed |-> f, free_minutes_used |-> f, total_cost |-> 0,
                 allowed_minutes |-> a]

InitLedger ==
    /\ InitUsers
    /\ videos = [v \in Videos |-> FreshVideo(v)]
    /\ subtitles = {}
    /\ storage = {VideoPath(v) : v \in Videos}
    /\ provider = [j \in JobIds |-> "none"]
    /\ task = [t \in Tasks |-> IdleTask]
    /\ resp = NoResp
    /\ nreq = 0
    /\ client = NoClient
    /\ temps = {}
    /\ compiled = NoCompiled

NextLedger ==
    \/ \E t \in Tasks : UsageCall(t)
    \/ \E t \in Tasks : UsageRead(t)
    \/ \E t \in Tasks : UsageWrite(t)
    \/ \E t \in Tasks : Finish(t)

SpecLedger == InitLedger /\ [][NextLedger]_vars

\* An asset whose dubbed video is already stored when the run starts.
LegacyJob(v) == IF v = "v2" THEN 1 ELSE 2

DubbedVideo(v) ==
    [FreshVideo(v) EXCEPT !.status = "completed",
                             !.dubbing_id = LegacyJob(v),
                             !.dubbed_video_url = GetFileUrl(DubbedPath(v, 1)),
                             !.is_dubbed_audio = TRUE]

Init ==
    /\ \E a \in AllowedChoices :
         users = [minutes_consumed |-> 0, free_minutes_used |-> 0, total_cost |-> 0,
                  allowed_minutes |-> a]
    /\ \E dubbed \in SUBSET LegacyVideos :
         videos = [v \in Videos |->
                     IF v \in dubbed THEN DubbedVideo(v) ELSE FreshVideo(v)]
    /\ subtitles = {}
    /\ storage = {VideoPath(v) : v \in Videos} \cup
                 ({PathOfUrl(videos[v].dubbed_video_url) : v \in Videos} \ {NoPath})
    /\ provider = [j \in JobIds |->
                     IF \E v \in Videos : videos[v].dubbing_id = j
                     THEN "dubbed" ELSE "none"]
    /\ task = [t \in Tasks |-> IdleTask]
    /\ resp = NoResp
    /\ nreq = 0
    /\ client = NoClient
    /\ temps = {}
    /\ compiled = NoCompiled

Next ==
    \/ \E t \in GenTasks : GenStart(t)
    \/ \E t \in GenTasks : GenCheck(t)
    \/ \E t \in GenTasks : GenProbe(t)
    \/ \E t \in GenTasks : GenQuota(t)
    \/ \E t \in GenTasks : GenDubCreate(t)
    \/ \E t \in GenTasks : GenDubPersist(t)
    \/ \E t \in GenTasks : GenDubStatus(t)
    \/ \E t \in GenTasks : GenSubtitles(t)
    \/ \E t \in GenTasks : GenSaveSubtitle(t)
    \/ \E t \in GenTasks : GenCompleted(t)
    \/ \E t \in GenTasks : GenFail(t)
    \/ \E t \in GenTasks : GenInterrupt(t)
    \/ \E t \in GenTasks : UsageRead(t)
    \/ \E t \in GenTasks : UsageWrite(t)
    \/ \E t \in GenTasks : Finish(t)
    \/ \E j \in JobIds : ProviderProgress(j)
    \/ \E v \in Videos, j \in JobIds : Poll(v, j)
    \/ \E v \in Videos, j \in JobIds : GetDubbedVideo(v, j)

Spec == Init /\ [][Next]_vars

\* The style compiler on its own: every run compiles one column value for
\* one caption language.
FontSizeChoices == {Absent, StrValue("small"), StrValue("medium"), StrValue("large"),
                    StrValue("LARGE"), StrValue("huge")}
ColorChoices == {Absent, StrValue("#FF0000"), StrValue("#00FF80"), StrValue("#FFF"),
                 StrValue("red"), IntValue("255")}
PositionChoices == {Absent, StrValue("top"), StrValue("bottom"), StrValue("Top")}
AlignmentChoices == {Absent, StrValue("left"), StrValue("center"), StrValue("right")}
WeightChoices == {Absent, StrValue("bold")}
SlantChoices == {Absent, StrValue("italic")}

DictChoices ==
    {DictStyles([k \in StyleKeys |->
        CASE k = "fontSize" -> fs
          [] k = "color" -> co
          [] k = "position" -> po
          [] k = "alignment" -> al
          [] k = "fontWeight" -> we
          [] OTHER -> sl]) :
        fs \in FontSizeChoices, co \in ColorChoices, po \in PositionChoices,
        al \in AlignmentChoices, we \in WeightChoices, sl \in SlantChoices}

ColumnChoices ==
    DictChoices \cup
    {NullStyles, ListStyles, TextStyles("null"), TextStyles("{}"), TextStyles("{bad"),
     TextStyles("{\"position\": \"top\"}")}

CompileLanguages == {"en", "de", "zh", "ja", "ko"}

InitStyle ==
    /\ users = [minutes_consumed |-> 0, free_minutes_used |-> 0, total_cost |-> 0,
                allowed_minutes |-> AllowedMinutesDefault]
    /\ videos = [v \in Videos |-> FreshVideo(v)]
    /\ subtitles = {}
    /\ storage = {VideoPath(v) : v \in Videos}
    /\ provider = [j \in JobIds |-> "none"]
    /\ task = [t \in Tasks |-> IdleTask]
    /\ resp = NoResp
    /\ nreq = 0
    /\ client = NoClient
    /\ temps = {}
    /\ \E column \in ColumnChoices, language \in CompileLanguages :
         compiled = [column |-> column, language |-> language, sheet |-> NoSheet]

NextStyle == Compile

SpecStyle == InitStyle /\ [][NextStyle]_vars

\* Uploads into an empty account.
InitUpload ==
    /\ InitUsers
    /\ videos = [v \in Videos |-> NoVideo]
    /\ subtitles = {}
    /\ storage = {}
    /\ provider = [j \in JobIds |-> "none"]
    /\ task = [t \in Tasks |-> IdleTask]
    /\ resp = NoResp
    /\ nreq = 0
    /\ client = NoClient
    /\ temps = {}
    /\ compiled = NoCompiled

NextUpload ==
    \E v \in Videos : \E u \in UploadInputs(v) : Upload(v, u)

SpecUpload == InitUpload /\ [][NextUpload]_vars

\* Processing, burn-in and deletion of the assets of one account.
NextDelete ==
    \/ \E t \in GenTasks : GenStart(t)
    \/ \E t \in GenTasks : GenCheck(t)
    \/ \E t \in GenTasks : GenProbe(t)
    \/ \E t \in GenTasks : GenQuota(t)
    \/ \E t \in GenTasks : GenDubCreate(t)
    \/ \E t \in GenTasks : GenDubPersist(t)
    \/ \E t \in GenTasks : GenDubStatus(t)
    \/ \E t \in GenTasks : GenSubtitles(t)
    \/ \E t \in GenTasks : GenSaveSubtitle(t)
    \/ \E t \in GenTasks : GenCompleted(t)
    \/ \E t \in GenTasks : GenFail(t)
    \/ \E t \in GenTasks : UsageRead(t)
    \/ \E t \in GenTasks : UsageWrite(t)
    \/ \E t \in GenTasks : Finish(t)
    \/ \E v \in Videos : \E s \in subtitles : BurnSubtitles(v, s)
    \/ \E v \in Videos : DeleteVideo(v)

SpecDelete == Init /\ [][NextDelete]_vars

\* The operations that use temporary files: processing, burn-in, and the
\* download of a dubbed audio track.
NextTemp ==
    \/ \E t \in GenTasks : GenStart(t)
    \/ \E t \in GenTasks : GenCheck(t)
    \/ \E t \in GenTasks : GenProbe(t)
    \/ \E t \in GenTasks : GenQuota(t)
    \/ \E t \in GenTasks : GenDubCreate(t)
    \/ \E t \in GenTasks : GenDubPersist(t)
    \/ \E t \in GenTasks : GenDubStatus(t)
    \/ \E t \in GenTasks : GenSubtitles(t)
    \/ \E t \in GenTasks : GenSaveSubtitle(t)
    \/ \E t \in GenTasks : GenCompleted(t)
    \/ \E t \in GenTasks : GenFail(t)
    \/ \E t \in GenTasks : UsageRead(t)
    \/ \E t \in GenTasks : UsageWrite(t)
    \/ \E t \in GenTasks : Finish(t)
    \/ \E j \in JobIds : ProviderProgress(j)
    \/ \E v \in Videos : \E s \in subtitles : BurnSubtitles(v, s)
    \/ \E v \in Videos, j \in JobIds : GetDubbedAudio(v, j)

SpecTemp == Init /\ [][NextTemp]_vars

\* The test client: a generate request with dubbing, then the poll loop.
NextClient ==
    \/ \E t \in GenTasks : ClientGenerate(t)
    \/ \E t \in GenTasks : GenCheck(t)
    \/ \E t \in GenTasks : GenProbe(t)
    \/ \E t \in GenTasks : GenQuota(t)
    \/ \E t \in GenTasks : GenDubCreate(t)
    \/ \E t \in GenTasks : GenDubPersist(t)
    \/ \E t \in GenTasks : GenDubStatus(t)
    \/ \E t \in GenTasks : GenFail(t)
    \/ \E t \in GenTasks : UsageRead(t)
    \/ \E t \in GenTasks : UsageWrite(t)
    \/ \E t \in GenTasks : Finish(t)
    \/ \E j \in JobIds : ProviderProgress(j)
    \/ \E t \in GenTasks : ClientStart(t)
    \/ ClientPoll

\* The loop's next poll is sent once its sleep is over.
SpecClient == Init /\ [][NextClient]_vars /\ WF_vars(ClientPoll)

\* ======================================================================
\* Claims
\* ======================================================================
GenDone(t) == task[t].pc = "done" /\ task[t].op = "generate"

\* C1: when subtitle generation succeeds (generate request without dubbing),
\* the asset is completed, one more CaptionArtifact of the asset is stored and
\* minutes_consumed has grown by the probed duration.
C1_SubtitleSuccessRecordsUsage ==
    \A t \in GenTasks :
        (GenDone(t) /\ ~task[t].dub /\ task[t].result.code = 200) =>
            /\ videos[task[t].video].status = "completed"
            /\ Cardinality(SubtitlesOf(task[t].video)) = task[t].presubs + 1
            /\ users.minutes_consumed = task[t].pre.minutes_consumed + task[t].duration

FailedSteps ==
    {"download", "user_not_found", "dub_create", "transcription", "translation",
     "upload", "save_subtitle"}

\* C2: a processing request that fails at any step after the asset entered
\* processing leaves the asset failed and the ledger as it was.
C2_FailureEndsFailed ==
    \A t \in GenTasks :
        (GenDone(t) /\ task[t].result.reason \in FailedSteps) =>
            /\ videos[task[t].video].status = "failed"
            /\ Ledger(users) = task[t].pre

\* C3: across update_user_usage calls free_minutes_used stays within
\* allowed_minutes, total_cost is never negative, never decreases, and grows
\* only when the call takes the account beyond allowed_minutes.
C3_LedgerWithinAllowance ==
    [][/\ users'.free_minutes_used <= users'.allowed_minutes
       /\ users'.total_cost >= 0
       /\ users'.total_cost >= users.total_cost
       /\ \A t \in Tasks :
            (task[t].pc = "usage_write" /\ task'[t].pc = "done"
               /\ users'.total_cost > users.total_cost) =>
                task[t].cur.free_minutes_used + task[t].duration > users.allowed_minutes
      ]_vars

\* C4: two update_user_usage calls that overlap (both started from the same
\* ledger) leave the ledger that the two calls leave when run one after the
\* other.
C4_NoLostUpdate ==
    (/\ nreq = 2
     /\ \A t \in Tasks : task[t].pc = "done" /\ task[t].op = "usage" /\ task[t].usage_ok
     /\ task["t1"].pre = task["t2"].pre) =>
        Ledger(users) =
            UsageUpdate(UsageUpdate(task["t1"].pre, task["t1"].duration),
                        task["t2"].duration)

\* C5: an asset moves to processing only from queued, uploaded or failed; a
\* request that finds the asset completed or processing is answered 400
\* (invalid status) and changes neither the asset rows, the artifacts, the
\* stored objects nor the ledger.  The request is one that reaches its
\* answer: a task killed before it answers is not a response.
C5_StartOnlyFromValidStatus ==
    [][/\ \A v \in Videos :
            (videos'[v].status = "processing" /\ videos[v].status # "processing") =>
                videos[v].status \in {"queued", "uploaded", "failed"}
       /\ \A t \in GenTasks :
            (task[t].pc = "check" /\ task'[t] # task[t]
               /\ task'[t].result.reason # "interrupted"
               /\ task[t].vstatus \in {"completed", "processing"}) =>
                /\ task'[t].pc = "done"
                /\ task'[t].result.code = 400
                /\ task'[t].result.reason = "invalid_status"
                /\ UNCHANGED <<videos, subtitles, storage, users>>
      ]_vars

C5_Witness ==
    \E t \in GenTasks :
        /\ GenDone(t)
        /\ task[t].result.reason = "invalid_status"
        /\ task[t].vstatus = "completed"
        /\ videos[task[t].video].status = "completed"
        /\ SubtitlesOf(task[t].video) # {}

\* C6: a request rejected by the quota pre-check leaves the asset in the
\* status it had before the request (not processing) and the ledger unchanged.
C6_QuotaRejectLeavesStatus ==
    \A t \in GenTasks :
        (GenDone(t) /\ task[t].result.code = 402) =>
            /\ videos[task[t].video].status = task[t].vstatus
            /\ videos[task[t].video].status # "processing"
            /\ Ledger(users) = task[t].pre

FetchPassedChecks ==
    /\ resp.op = "fetch"
    /\ resp.reason \notin {"video_not_found", "invalid_dubbing_id", "already_available"}

\* C7: a fetch for a job the provider reports finished, on an asset without a
\* stored dubbed URL and with every external call answering, stores the
\* durable URL with is_dubbed_audio true, completes the asset and returns
\* the URL.
C7_FetchAfterComplete ==
    (/\ FetchPassedChecks
     /\ resp.raw = "dubbed"
     /\ resp.reason \notin {"status_unavailable", "fetch_failed", "update_failed"}) =>
        /\ resp.code = 200
        /\ resp.url # NoUrl
        /\ videos[resp.video].dubbed_video_url = resp.url
        /\ videos[resp.video].is_dubbed_audio
        /\ videos[resp.video].status = "completed"
        /\ PathOfUrl(resp.url) \in storage

C9_FetchCached ==
    [][\A v \in Videos, j \in JobIds :
         (/\ resp'.op = "fetch" /\ resp'.video = v /\ resp'.job = j
          /\ ValidDubbingId(videos[v], j)
          /\ videos[v].dubbed_video_url # NoUrl) =>
             /\ resp'.code = 200
             /\ resp'.url = videos[v].dubbed_video_url
             /\ resp'.provider_calls = 0
             /\ UNCHANGED <<videos, storage, subtitles, users, provider>>
      ]_vars

C9_Witness ==
    /\ resp.op = "fetch"
    /\ resp.code = 200
    /\ resp.url # NoUrl
    /\ resp.url = videos[resp.video].dubbed_video_url
    /\ PathOfUrl(resp.url) \in storage

\* C10: when a generate request with dubbing returns a job id, that id is
\* the dubbing_id stored on the asset and the asset is processing.
C10_ReturnedJobPersisted ==
    [][\A t \in GenTasks :
         (/\ task[t].pc # "done" /\ task'[t].pc = "done"
          /\ task'[t].result.dubbing_id # NoJob) =>
             /\ videos'[task[t].video].dubbing_id = task'[t].result.dubbing_id
             /\ videos'[task[t].video].status = "processing"
      ]_vars

C12_FailedDubNotCharged ==
    \A t \in GenTasks :
        (/\ GenDone(t) /\ task[t].dub /\ task[t].result.code = 200
         /\ resp.op = "poll" /\ resp.reason = "dubbing_failed"
         /\ resp.video = task[t].video /\ resp.job = task[t].job) =>
            Ledger(users) = task[t].pre

UsageReturned(t) ==
    task[t].pc = "done" /\ task[t].op = "usage" /\ task[t].usage_ok

\* C16: with allowed_minutes 30 and 1.25 per minute, a 10-minute call on an
\* account with free_minutes_used 25 sets free_minutes_used to 30 and adds
\* 5 * 1.25 to total_cost.
C16_WorkedExample ==
    [][\A t \in Tasks :
         (/\ task[t].pc = "usage_write" /\ task'[t].pc = "done" /\ task'[t].usage_ok
          /\ users.allowed_minutes = AllowedMinutesDefault
          /\ task[t].cur.free_minutes_used = 25
          /\ task[t].duration = 10) =>
             /\ users'.free_minutes_used = 30
             /\ users'.total_cost = task[t].cur.total_cost + 5 * CostPerMinute
      ]_vars

\* C17: two calls with non-negative minutes d1, d2 that run one after the
\* other leave the ledger that one call with d1 + d2 leaves.
C17_UsageAdditive ==
    (/\ nreq = 2
     /\ \A t \in Tasks : UsageReturned(t) /\ task[t].alone /\ task[t].duration >= 0) =>
        \E a \in Tasks : \E b \in Tasks \ {a} :
            /\ task[b].pre = UsageUpdate(task[a].pre, task[a].duration)
            /\ Ledger(users) =
                   UsageUpdate(task[a].pre, task[a].duration + task[b].duration)

C17_Witness ==
    /\ nreq = 2
    /\ \A t \in Tasks : UsageReturned(t) /\ task[t].alone /\ task[t].duration > 0
    /\ task["t2"].pre = UsageUpdate(task["t1"].pre, task["t1"].duration)
    /\ task["t1"].pre.free_minutes_used < UsageFreeCap
    /\ task["t2"].pre.free_minutes_used = UsageFreeCap
    /\ users.total_cost > task["t2"].pre.total_cost
    /\ task["t2"].pre.total_cost > task["t1"].pre.total_cost

\* C18: a call with negative minutes is rejected and leaves the ledger as it
\* was; no call decrements a ledger field.
C18_NegativeRejected ==
    [][\A t \in Tasks :
         (task[t].pc = "usage_write" /\ task'[t].pc = "done") =>
             /\ task[t].duration < 0 => (~task'[t].usage_ok /\ UNCHANGED users)
             /\ users'.minutes_consumed >= users.minutes_consumed
             /\ users'.free_minutes_used >= users.free_minutes_used
             /\ users'.total_cost >= users.total_cost
      ]_vars

\* C19: the estimated cost of a request is zero when the duration fits in
\* the remaining free minutes and otherwise (duration - remaining) * rate;
\* a request is rejected with 402 exactly when the duration does not fit.
C19_EstimatedCost ==
    \A t \in GenTasks :
        /\ task[t].pc = "quota" =>
              task[t].cost =
                 IF task[t].duration <= MinutesRemaining(users) THEN 0
                 ELSE (task[t].duration - MinutesRemaining(users)) * CostPerMinute
        /\ (GenDone(t) /\ task[t].result.code = 402) =>
              task[t].duration > MinutesRemaining(users)

\* C15: no step moves an asset back to queued: an asset that has left queued
\* has status processing, completed or failed from then on, also after its
\* request was interrupted at any of its calls.
C15_NeverBackToQueued ==
    [][\A v \in Videos :
         videos[v].status # "queued" =>
             videos'[v].status \in {"processing", "completed", "failed"}
      ]_vars

C15_Witness ==
    \E t \in GenTasks :
        /\ GenDone(t)
        /\ task[t].result.reason = "interrupted"
        /\ videos[task[t].video].status = "processing"
        /\ SubtitlesOf(task[t].video) # {}

ClientOutcomes == {"completed", "failed", "timed_out"}

FilesOf(r, subs) ==
    ({PathOfUrl(r.video_url), PathOfUrl(r.dubbed_video_url),
      PathOfUrl(r.burned_video_url)} \ {NoPath})
        \cup {PathOfUrl(x.subtitle_url) : x \in subs}

C14_ProviderDeleteNotFatal ==
    [][\A v \in Videos :
         (/\ resp'.op = "delete" /\ resp'.video = v /\ Stored(v)
          /\ videos[v].dubbing_id # NoJob) =>
             /\ resp'.reason \in {"deleted", "metadata_delete_failed"}
             /\ PathOfUrl(videos[v].video_url) \in resp'.attempted
             /\ resp'.reason = "deleted" =>
                   (resp'.code = 200 /\ videos'[v] = NoVideo)
      ]_vars

C14_Witness ==
    /\ resp.op = "delete" /\ resp.code = 200
    /\ resp.job # NoJob
    /\ provider[resp.job] # "none"
    /\ videos[resp.video] = NoVideo
    /\ PathOfUrl(VideoUrl(resp.video)) \notin storage

\* C21: when the structural conversion of a burn fails (the converted caption
\* file lacks its style or its events section) the burn is answered as a
\* failure, nothing is rendered or uploaded, no URL of the asset changes, and
\* the asset is marked failed.
C21_ConversionFailureMarksFailed ==
    [][(resp'.op = "burn" /\ resp'.stage = "conversion") =>
          LET v == resp'.video IN
          /\ resp'.code = 500
          /\ storage' = storage
          /\ videos'[v].dubbed_video_url = videos[v].dubbed_video_url
          /\ videos'[v].burned_video_url = videos[v].burned_video_url
          /\ videos'[v].status = "failed"
      ]_vars

\* C22: a successful burn returns the URL of a stored object; an asset with a
\* dubbed URL gets both its dubbed and its burned URL set to it, any other
\* asset only its burned URL; the original URL and the status do not change.
C22_BurnSetsUrls ==
    [][(resp'.op = "burn" /\ resp'.code = 200) =>
          LET v == resp'.video IN
          /\ resp'.url # NoUrl
          /\ PathOfUrl(resp'.url) \in storage'
          /\ videos'[v].burned_video_url = resp'.url
          /\ IF HasDubbedVideo(videos[v])
             THEN videos'[v].dubbed_video_url = resp'.url
             ELSE videos'[v].dubbed_video_url = videos[v].dubbed_video_url
          /\ videos'[v].video_url = videos[v].video_url
          /\ videos'[v].status = videos[v].status
      ]_vars

\* The style spec {fontSize: large, color: #FF0000, position: top,
\* alignment: left}.
C27_Style ==
    DictStyles([NoItems EXCEPT !["fontSize"] = StrValue("large"),
                               !["color"] = StrValue("#FF0000"),
                               !["position"] = StrValue("top"),
                               !["alignment"] = StrValue("left")])

\* C27: compiling {fontSize: large, color: #FF0000, position: top, alignment:
\* left} gives alignment code 7, font size 32/1.5 = 21.33, the color as
\* BBGGRR behind a fully opaque alpha byte (00), vertical margin 30, and no
\* outline and no shadow.
C27_CompiledExample ==
    (compiled.sheet # NoSheet /\ compiled.column = C27_Style) =>
        /\ compiled.sheet.alignment = 7
        /\ compiled.sheet.fontsize = 2133
        /\ compiled.sheet.primary = <<"&", "H", "0", "0", "0", "0", "0", "0", "F", "F">>
        /\ compiled.sheet.margin_v = 30
        /\ compiled.sheet.outline = 0
        /\ compiled.sheet.shadow = 0

C27_Witness ==
    /\ compiled.column = C27_Style
    /\ compiled.sheet # NoSheet
    /\ compiled.sheet.alignment = 7

\* The stylesheet of an asset without a style.
DefaultSheet ==
    [fontname |-> "Arial", fontsize |-> 1600,
     primary |-> <<"&", "H", "0", "0", "F", "F", "F", "F", "F", "F">>,
     bold |-> 0, italic |-> 0, outline |-> 1, shadow |-> 1, alignment |-> 2,
     margin_l |-> 20, margin_r |-> 20, margin_v |-> 40]

ConversionFails(column) ==
    \/ column.type = "list"
    \/ /\ column.type = "dict"
       /\ column.items["color"] \in {StrValue("red"), StrValue("#FFF"), IntValue("255")}

\* C29: when the conversion fails (malformed color, value of unexpected type)
\* the compiler returns exactly the stylesheet it returns for no style.
C29_FailureGivesDefault ==
    (compiled.sheet # NoSheet /\ ConversionFails(compiled.column)) =>
        compiled.sheet = DefaultSheet

\* C30: for zh, ja and ko the compiled stylesheet names that language's font;
\* for any other language it names the family the caller gave.
C30_LanguageFont ==
    compiled.sheet # NoSheet =>
        compiled.sheet.fontname = GetFontForLanguage("Arial", compiled.language)

\* C24: generate calls the translation model only when the language asked for
\* differs from the language of the transcript; when they are the same the
\* transcript is stored as the caption without that call.
C24_TranslateOnlyWhenDiffers ==
    \A t \in GenTasks :
        (task[t].op = "generate" /\ task[t].translated) =>
            Language(task[t].video) # TranscriptLanguage(task[t].video)

\* The calls that have not returned yet: tasks between their first and their
\* last step.
Running == {t \in Tasks : task[t].pc \notin {"idle", "done"}}

\* C23: every temporary file a task created (duration re-probe, subtitle
\* service, dubbed-audio download, burn-in) is gone when the operation has
\* returned, on success and on every failure: the files on disk belong to
\* calls that are still running.
C23_TempFilesRemoved ==
    \A f \in temps : f.owner \in Running

C23_Witness ==
    /\ resp.op = "burn" /\ resp.code = 200
    /\ \E t \in GenTasks : task[t].op = "generate" /\ task[t].pc = "done"
                            /\ task[t].result.code = 200
    /\ temps = {}

\* The requests the claim calls input errors: no file name, style text that
\* is no JSON, content over the size limit, a content type that is not
\* allowed, a probed duration of zero or less, a duration over the maximum.
IsInputError(u) ==
    \/ ~u.filename
    \/ u.styles = "malformed"
    \/ u.size > MaxVideoSizeMB
    \/ u.content_type \notin {"video/mp4", "video/webm", "audio/wav"}
    \/ u.probed <= 0
    \/ u.probed > MaxVideoDurationMinutes

\* C25: an upload with an input error is rejected before any side effect: no
\* object is written, no row is created, the ledger is unchanged (and no
\* temporary file stays behind).
C25_InputErrorNoSideEffect ==
    [][(resp'.op = "upload" /\ IsInputError(resp'.request)) =>
          /\ resp'.code \in {400, 500}
          /\ resp'.reason \notin {"uploaded", "upload_failed", "save_failed"}
          /\ UNCHANGED <<videos, storage, users, subtitles, temps>>
      ]_vars

C25_Witness ==
    /\ resp.op = "upload" /\ resp.code = 400 /\ resp.reason = "bad_duration"
    /\ nreq = 1
    /\ storage = {}
    /\ \A v \in Videos : ~Stored(v)

\* C26: a style sent with a successful upload is stored on the created
\* asset (so a later burn-in compiles it); an upload without a style creates
\* an asset without one; the asset is created with status queued.
C26_StyleStoredAtUpload ==
    [][(resp'.op = "upload" /\ resp'.code = 200) =>
          LET v == resp'.video IN
          /\ videos'[v] # NoVideo
          /\ videos'[v].status = "queued"
          /\ videos'[v].subtitle_styles = ParsedStyles(resp'.request.styles)
      ]_vars

\* ----------------------------------------------- requests side by side
\* Two generate requests of one account in flight at once: every step of
\* either request may come between two steps of the other.
NextConcurrent ==
    \/ \E t \in Tasks : GenStart(t)
    \/ \E t \in Tasks : GenCheck(t)
    \/ \E t \in Tasks : GenProbe(t)
    \/ \E t \in Tasks : GenQuota(t)
    \/ \E t \in Tasks : GenDubCreate(t)
    \/ \E t \in Tasks : GenDubPersist(t)
    \/ \E t \in Tasks : GenDubStatus(t)
    \/ \E t \in Tasks : GenSubtitles(t)
    \/ \E t \in Tasks : GenSaveSubtitle(t)
    \/ \E t \in Tasks : GenCompleted(t)
    \/ \E t \in Tasks : GenFail(t)
    \/ \E t \in Tasks : UsageRead(t)
    \/ \E t \in Tasks : UsageWrite(t)
    \/ \E t \in Tasks : Finish(t)

SpecConcurrent == Init /\ [][NextConcurrent]_vars

\* The request passed the quota pre-check of videos.py 353 and is being
\* processed, or was processed.
PassedPreCheck(t) ==
    /\ task[t].op = "generate"
    /\ \/ task[t].pc \in {"dub_create", "dub_persist", "dub_status", "sub_gen",
                          "sub_save", "sub_status", "usage_read", "usage_write"}
       \/ task[t].pc = "done" /\ task[t].result.code = 200

\* The free minutes the account had left when the earlier of the two
\* requests arrived.
RemainingBefore(t, u) ==
    Max(0, users.allowed_minutes
             - Min(task[t].pre.free_minutes_used, task[u].pre.free_minutes_used))

\* C31: two generate requests of one account that each need d minutes, with
\* d <= r < 2d free minutes remaining, are never both past the quota
\* pre-check: at most one of them is processed within the free allowance.
C31_NoDoubleSpend ==
    \A t, u \in Tasks :
        (/\ t # u
         /\ PassedPreCheck(t) /\ PassedPreCheck(u)
         /\ task[t].duration = task[u].duration
         /\ task[t].duration <= RemainingBefore(t, u)
         /\ RemainingBefore(t, u) < 2 * task[t].duration) => FALSE

\* The request passed the status check of videos.py 313 and wrote
\* "processing" (319); it has not returned yet.
InProcessing(t) ==
    /\ task[t].op = "generate"
    /\ task[t].pc \in {"probe", "quota", "dub_create", "dub_persist", "dub_status",
                       "sub_gen", "sub_save", "sub_status", "usage_read",
                       "usage_write", "fail"}

\* C32: no two generate requests are processing the same asset at once: of
\* two requests issued together for an asset in queued or failed, at most
\* one passes the status check.
C32_OneTaskPerAsset ==
    \A t, u \in Tasks :
        (t # u /\ InProcessing(t) /\ InProcessing(u)) => task[t].video # task[u].video

\* Nothing of asset v is left: no row, no caption row, no caption file.
NoCaptionResidue(v) ==
    /\ ~Stored(v)
    /\ SubtitlesOf(v) = {}
    /\ \A p \in storage : ~(p.kind = "subtitles" /\ p.video = v)

\* C33: an asset deleted while a generate request for it was in flight has,
\* when that request returns, no caption row and no caption file, and its
\* row has not come back.  (The request started on a stored asset, so an
\* asset that is gone when it returns was deleted in between.)
C33_DeleteDuringGeneration ==
    [][\A t \in GenTasks :
          (/\ task[t].op = "generate"
           /\ task[t].pc # "done" /\ task'[t].pc = "done"
           /\ ~Stored(task[t].video)') => NoCaptionResidue(task[t].video)'
      ]_vars

\* ------------------------------------------------------------- progress
\* The handlers of Spec when no request is cut short: every call a request
\* makes returns, with success or with failure.
NextLive ==
    \/ \E t \in GenTasks : GenStart(t)
    \/ \E t \in GenTasks : GenCheck(t)
    \/ \E t \in GenTasks : GenProbe(t)
    \/ \E t \in GenTasks : GenQuota(t)
    \/ \E t \in GenTasks : GenDubCreate(t)
    \/ \E t \in GenTasks : GenDubPersist(t)
    \/ \E t \in GenTasks : GenDubStatus(t)
    \/ \E t \in GenTasks : GenSubtitles(t)
    \/ \E t \in GenTasks : GenSaveSubtitle(t)
    \/ \E t \in GenTasks : GenCompleted(t)
    \/ \E t \in GenTasks : GenFail(t)
    \/ \E t \in GenTasks : UsageRead(t)
    \/ \E t \in GenTasks : UsageWrite(t)
    \/ \E t \in GenTasks : Finish(t)
    \/ \E j \in JobIds : ProviderProgress(j)
    \/ \E v \in Videos, j \in JobIds : Poll(v, j)
    \/ \E v \in Videos, j \in JobIds : GetDubbedVideo(v, j)

\* The next step of a request that has started.
GenStep(t) ==
    \/ GenCheck(t) \/ GenProbe(t) \/ GenQuota(t)
    \/ GenDubCreate(t) \/ GenDubPersist(t) \/ GenDubStatus(t)
    \/ GenSubtitles(t) \/ GenSaveSubtitle(t) \/ GenCompleted(t) \/ GenFail(t)
    \/ UsageRead(t) \/ UsageWrite(t)

\* A started request runs to its return; a job at the provider ends; the
\* caller goes on polling and fetching.
FairLive ==
    /\ \A t \in GenTasks : WF_vars(GenStep(t))
    /\ \A j \in JobIds : WF_vars(ProviderProgress(j))
    /\ \A v \in Videos, j \in JobIds : WF_vars(Poll(v, j))
    /\ \A v \in Videos, j \in JobIds : WF_vars(GetDubbedVideo(v, j))

SpecLive == Init /\ [][NextLive]_vars /\ FairLive

\* C34: an asset that is in processing eventually is completed or failed.
C34_ProcessingEnds ==
    \A v \in Videos :
        (videos[v].status = "processing")
            ~> (videos[v].status \in {"completed", "failed"})

\* The URLs stored on a row.
UrlsOf(row) ==
    {row.video_url, row.dubbed_video_url, row.burned_video_url} \ {NoUrl}

\* C35: every URL stored on an asset (original, dubbed, burned) refers to
\* an object that exists in storage; a burn-in into a dubbed asset does not
\* leave the dubbed URL on the old dubbed object once that is deleted.
C35_UrlsReferToObjects ==
    \A v \in Videos :
        Stored(v) => \A url \in UrlsOf(videos[v]) : PathOfUrl(url) \in storage

\* ------------------------------------------------- the dubbing columns
\* Every handler that writes the dubbing columns of an asset: processing
\* with or without a dub job, the provider, polls, fetches and burn-ins.
NextDub ==
    \/ \E t \in GenTasks : GenStart(t)
    \/ \E t \in GenTasks : GenCheck(t)
    \/ \E t \in GenTasks : GenProbe(t)
    \/ \E t \in GenTasks : GenQuota(t)
    \/ \E t \in GenTasks : GenDubCreate(t)
    \/ \E t \in GenTasks : GenDubPersist(t)
    \/ \E t \in GenTasks : GenDubStatus(t)
    \/ \E t \in GenTasks : GenSubtitles(t)
    \/ \E t \in GenTasks : GenSaveSubtitle(t)
    \/ \E t \in GenTasks : GenCompleted(t)
    \/ \E t \in GenTasks : GenFail(t)
    \/ \E t \in GenTasks : UsageRead(t)
    \/ \E t \in GenTasks : UsageWrite(t)
    \/ \E t \in GenTasks : Finish(t)
    \/ \E j \in JobIds : ProviderProgress(j)
    \/ \E v \in Videos, j \in JobIds : Poll(v, j)
    \/ \E v \in Videos, j \in JobIds : GetDubbedVideo(v, j)
    \/ \E v \in Videos : \E s \in subtitles : BurnSubtitles(v, s)

SpecDub == Init /\ [][NextDub]_vars

\* C36: the flag is_dubbed_audio of an asset is true exactly when the asset
\* has a dubbed URL, whatever requests created a dub job, fetched its
\* result, burned captions in or created a new dub job after a failure.
C36_FlagIffDubbedUrl ==
    \A v \in Videos :
        Stored(v) => (videos[v].is_dubbed_audio <=> videos[v].dubbed_video_url # NoUrl)

\* A second dub job was created for an asset whose first one had failed.
C36_Witness ==
    \E t \in GenTasks :
        /\ GenDone(t) /\ task[t].dub /\ task[t].result.code = 200
        /\ task[t].vstatus = "failed"
        /\ task[t].job = 2 /\ provider[1] = "failed"
        /\ videos[task[t].video].dubbing_id = task[t].job
        /\ ~videos[task[t].video].is_dubbed_audio
        /\ videos[task[t].video].dubbed_video_url = NoUrl

\* The asset has something to show: a caption row or a dubbed video.
HasArtifact(v) ==
    SubtitlesOf(v) # {} \/ videos[v].dubbed_video_url # NoUrl

\* C37: an asset has status completed only if it owns a caption row or has
\* a dubbed URL: completed is never written before the artifact of the
\* request is persisted.
C37_CompletedHasArtifact ==
    \A v \in Videos : videos[v].status = "completed" => HasArtifact(v)

\* A caption request has just ended with the asset completed.
C37_Witness ==
    \E t \in GenTasks :
        /\ GenDone(t) /\ ~task[t].dub /\ task[t].result.code = 200
        /\ videos[task[t].video].status = "completed"
        /\ videos[task[t].video].dubbed_video_url = NoUrl
        /\ SubtitlesOf(task[t].video) # {}

\* ------------------------------------------------------------ translation
\* models.py 12-23: the language codes an upload may name, with the names
\* the enumeration gives them.
SupportedLanguage ==
    {"en", "de", "es", "fr", "ja", "ru", "it", "zh", "tr", "ko", "pt"}

EnumName(code) ==
    CASE code = "en" -> "English"
      [] code = "de" -> "German"
      [] code = "es" -> "Spanish"
      [] code = "fr" -> "French"
      [] code = "ja" -> "Japanese"
      [] code = "ru" -> "Russian"
      [] code = "it" -> "Italian"
      [] code = "zh" -> "Chinese"
      [] code = "tr" -> "Turkish"
      [] code = "ko" -> "Korean"
      [] OTHER -> "Portuguese"

\* subtitle_service.py 17-24: self.language_names.
LanguageNames ==
    [c \in {"en", "de", "es", "fr", "ja", "ru"} |-> EnumName(c)]

\* subtitle_service.py 42: self.language_names.get(target_language, "English"),
\* the language the prompt of 45-48 asks the translation model for.
PromptLanguage(target_language) ==
    IF target_language \in DOMAIN LanguageNames
    THEN LanguageNames[target_language] ELSE "English"

\* The code of the language the translated text is in: the translation
\* model writes the language its prompt names.
TextLanguage(target_language) ==
    CHOOSE c \in SupportedLanguage : EnumName(c) = PromptLanguage(target_language)

\* subtitle_service.py 119-121 with videos.py 415-434: the transcript of an
\* asset whose audio is in transcript_language is translated for an asset
\* row that names `language`; the caption row records video["language"].
TranslateCaptions(language, transcript_language) ==
    /\ \E ok \in BOOLEAN :
         resp' = IF ok
                 THEN [NoResp EXCEPT !.op = "translate", !.reason = "translated",
                                     !.language = language,
                                     !.transcript_language = transcript_language,
                                     !.text_language = TextLanguage(language)]
                 ELSE [NoResp EXCEPT !.op = "translate",
                                     !.reason = "translation_failed",
                                     !.language = language,
                                     !.transcript_language = transcript_language]
    /\ UNCHANGED <<videos, subtitles, storage, users, provider, task, nreq, client,
                   temps, compiled>>

NextTranslate ==
    \E language \in SupportedLanguage, transcript_language \in SupportedLanguage :
        TranslateCaptions(language, transcript_language)

SpecTranslate == Init /\ [][NextTranslate]_vars

\* C38: for every supported language code the translation is asked for the
\* asset's language, so the caption text is in the language recorded on the
\* caption row.
C38_TextInRecordedLanguage ==
    (resp.op = "translate" /\ resp.reason = "translated")
        => resp.text_language = resp.language

====
